---- MODULE Spec2Model ----
(***************************************************************************)
(* Model of data/wrangle.py: a batch script that cleans country reference  *)
(* files in the working directory and writes per-continent question files. *)
(*                                                                         *)
(* Representation.  A Python str is the sequence of its code points, so    *)
(* that ordering (list.sort), str.lower, str.replace, str.strip, the       *)
(* printable filter and int() are computed character by character.  A JSON *)
(* number is held in units of 1/NumScale so that int() truncates.  A dict  *)
(* is the sequence of its [key, val] entries in insertion order.  The      *)
(* working directory is the function files: file name -> parsed content,   *)
(* and questions is the directory questions/.                              *)
(***************************************************************************)
EXTENDS Integers, Sequences, FiniteSets, TLC

VARIABLES
  files,      \* the working directory: file name -> content
  questions,  \* the directory questions/: file name -> QuestionSet
  status,     \* "idle", "running", "done" (script ended) or "aborted" (it raised)
  pc,         \* index in Script of the step to run next
  runs,       \* how many times the script was launched
  start,      \* the two directories as they were when the current run started
  rerun       \* the current run started right after a completed one

vars == <<files, questions, status, pc, runs, start, rerun>>

\* ------------------------------------------------------------------ bounds
MaxRuns == 2
MaxContinentRecords == 2
MaxCapitalRecords == 2
MaxAreaRecords == 2
MaxCsvExtraRows == 1
NumScale == 10

\* A list built by a comprehension, held as the list of its elements (and not
\* as the rule that computes them, which would be re-evaluated at every use).
List(s) == SubSeq(s, 1, Len(s))

\* ----------------------------------------------------------------- strings
\* Python compares str by code point at the first difference; a proper
\* prefix is smaller.  a and b agree before index i.
RECURSIVE StrLessFrom(_, _, _)
StrLessFrom(a, b, i) ==
  IF i > Len(b) THEN FALSE
  ELSE IF i > Len(a) THEN TRUE
  ELSE IF a[i] = b[i] THEN StrLessFrom(a, b, i + 1)
  ELSE a[i] < b[i]

StrLess(a, b) == StrLessFrom(a, b, 1)

StrLeq(a, b) == ~StrLess(b, a)

EndsWith(s, suffix) ==
  /\ Len(suffix) <= Len(s)
  /\ SubSeq(s, Len(s) - Len(suffix) + 1, Len(s)) = suffix

removesuffix(s, suffix) ==
  IF EndsWith(s, suffix) THEN SubSeq(s, 1, Len(s) - Len(suffix)) ELSE s

\* str.lower on the ASCII and Latin-1 capitals
LowerChar(c) ==
  IF c \in 65..90 \/ (c \in 192..222 /\ c # 215) THEN c + 32 ELSE c

\* (mutant) the continent name is not lowered
continent_file_prefix_nolower(cont) ==
  List([i \in 1..Len(cont) |-> IF cont[i] = 32 THEN 95 ELSE cont[i]])

\* cont.replace(" ", "_").lower()
continent_file_prefix(cont) ==
  List([i \in 1..Len(cont) |-> LowerChar(IF cont[i] = 32 THEN 95 ELSE cont[i])])

\* string.printable: digits, ASCII letters, punctuation and " \t\n\r\x0b\x0c"
printable == (32..126) \cup (9..13)

fprint(s) == SelectSeq(s, LAMBDA ss : ss \in printable)

\* str.strip(): leading and trailing white space removed
Whitespace == (9..13) \cup (28..32) \cup {133, 160}

RECURSIVE LStrip(_)
LStrip(s) ==
  IF s # <<>> /\ Head(s) \in Whitespace THEN LStrip(Tail(s)) ELSE s

RECURSIVE RStrip(_)
RStrip(s) ==
  IF s # <<>> /\ s[Len(s)] \in Whitespace
  THEN RStrip(SubSeq(s, 1, Len(s) - 1))
  ELSE s

strip(s) == RStrip(LStrip(s))

\* pop.replace(",", "")
remove_commas(s) == SelectSeq(s, LAMBDA c : c # 44)

\* int(str): a non-empty run of decimal digits; anything else raises
IsIntLiteral(s) == s # <<>> /\ \A i \in 1..Len(s) : s[i] \in 48..57

RECURSIVE ParseInt(_)
ParseInt(s) ==
  IF s = <<>> THEN 0
  ELSE 10 * ParseInt(SubSeq(s, 1, Len(s) - 1)) + (s[Len(s)] - 48)

\* int(number): truncation of a non-negative JSON number
int(x) == x \div NumScale

\* JSON null
Null == <<-1>>

\* Python truth value of a JSON string or null
Truthy(v) == v # <<>> /\ v # Null

\* ------------------------------------------------------------------- dicts
DictHas(d, k) == \E i \in 1..Len(d) : d[i].key = k

DictGet(d, k) == d[CHOOSE i \in 1..Len(d) : d[i].key = k].val

DictSet(d, k, v) ==
  IF DictHas(d, k)
  THEN List([i \in 1..Len(d) |->
               IF d[i].key = k THEN [key |-> k, val |-> v] ELSE d[i]])
  ELSE Append(d, [key |-> k, val |-> v])

DictPop(d, k) == SelectSeq(d, LAMBDA e : e.key # k)

\* ----------------------------------------------------------------- sorting
\* list.sort(key=...) is stable; s is a sequence of <<key, element>>.  The
\* element at index i lands after every element with a smaller key and after
\* the elements before it with an equal key.
SortPairs(s) ==
  LET n == Len(s)
      rank == List([i \in 1..n |->
                      1 + Cardinality({j \in 1..n :
                             \/ StrLess(s[j][1], s[i][1])
                             \/ (j < i /\ s[j][1] = s[i][1])})])
  IN  List([k \in 1..n |-> s[CHOOSE i \in 1..n : rank[i] = k]])

SortStrings(s) ==
  LET t == SortPairs(List([i \in 1..Len(s) |-> <<s[i], s[i]>>]))
  IN  List([i \in 1..Len(s) |-> t[i][2]])

SortByCountry(s) ==
  LET t == SortPairs(List([i \in 1..Len(s) |-> <<s[i].country, s[i]>>]))
  IN  List([i \in 1..Len(s) |-> t[i][2]])

\* (mutant) the items are left in the order of the fact file
SortByQuestion_unsorted(s) == s

SortByQuestion(s) ==
  LET t == SortPairs(List([i \in 1..Len(s) |-> <<s[i].question, s[i]>>]))
  IN  List([i \in 1..Len(s) |-> t[i][2]])

\* ------------------------------------------------------------------- files
Exists(f, name) == name \in DOMAIN f

Write(f, name, content) ==
  [n \in DOMAIN f \cup {name} |-> IF n = name THEN content ELSE f[n]]

\* the outcome of a step that raised before writing anything
Raised(f, q) == [ok |-> FALSE, files |-> f, questions |-> q]

Returned(f, q) == [ok |-> TRUE, files |-> f, questions |-> q]

\* ---------------------------------------------------- names in the script
country_continent_json ==
  <<99, 111, 117, 110, 116, 114, 121, 95, 99, 111, 110, 116, 105, 110, 101, 110, 116, 46, 106, 115, 111, 110>>  (* "country_continent.json" *)

continent_to_country_json ==
  <<99, 111, 110, 116, 105, 110, 101, 110, 116, 95, 116, 111, 95, 99, 111, 117, 110, 116, 114, 121, 46, 106, 115, 111, 110>>  (* "continent_to_country.json" *)

country_capital_json ==
  <<99, 111, 117, 110, 116, 114, 121, 95, 99, 97, 112, 105, 116, 97, 108, 46, 106, 115, 111, 110>>  (* "country_capital.json" *)

country_area_json ==
  <<99, 111, 117, 110, 116, 114, 121, 95, 97, 114, 101, 97, 46, 106, 115, 111, 110>>  (* "country_area.json" *)

world_population_csv ==
  <<119, 111, 114, 108, 100, 95, 112, 111, 112, 117, 108, 97, 116, 105, 111, 110, 46, 99, 115, 118>>  (* "world_population.csv" *)

country_population_json ==
  <<99, 111, 117, 110, 116, 114, 121, 95, 112, 111, 112, 117, 108, 97, 116, 105, 111, 110, 46, 106, 115, 111, 110>>  (* "country_population.json" *)

capitals_json_suffix ==
  <<95, 99, 97, 112, 105, 116, 97, 108, 115, 46, 106, 115, 111, 110>>  (* "_capitals.json" *)

areas_json_suffix ==
  <<95, 97, 114, 101, 97, 115, 46, 106, 115, 111, 110>>  (* "_areas.json" *)

populations_json_suffix ==
  <<95, 112, 111, 112, 117, 108, 97, 116, 105, 111, 110, 115, 46, 106, 115, 111, 110>>  (* "_populations.json" *)

capitals_name_suffix ==
  <<95, 99, 97, 112, 105, 116, 97, 108, 115>>  (* "_capitals" *)

areas_name_suffix ==
  <<95, 97, 114, 101, 97, 115>>  (* "_areas" *)

populations_name_suffix ==
  <<95, 112, 111, 112, 117, 108, 97, 116, 105, 111, 110, 115>>  (* "_populations" *)

yaml_suffix ==
  <<46, 121, 97, 109, 108>>  (* ".yaml" *)

capital_question_prefix ==
  <<87, 104, 97, 116, 32, 105, 115, 32, 116, 104, 101, 32, 99, 97, 112, 105, 116, 97, 108, 32, 111, 102, 32>>  (* "What is the capital of " *)

area_question_prefix ==
  <<87, 104, 97, 116, 32, 105, 115, 32, 116, 104, 101, 32, 97, 114, 101, 97, 32, 40, 107, 109, 94, 50, 41, 32, 111, 102, 32>>  (* "What is the area (km^2) of " *)

population_question_prefix ==
  <<87, 104, 97, 116, 32, 105, 115, 32, 116, 104, 101, 32, 112, 111, 112, 117, 108, 97, 116, 105, 111, 110, 32, 111, 102, 32>>  (* "What is the population of " *)

HolySee ==
  <<72, 111, 108, 121, 32, 83, 101, 101, 32, 40, 86, 97, 116, 105, 99, 97, 110, 32, 67, 105, 116, 121, 32, 83, 116, 97, 116, 101, 41>>  (* "Holy See (Vatican City State)" *)

VaticanCity ==
  <<86, 97, 116, 105, 99, 97, 110, 32, 67, 105, 116, 121>>  (* "Vatican City" *)
\* ------------------------------------------------- strings of the inputs
Europe ==
  <<69, 117, 114, 111, 112, 101>>  (* "Europe" *)

NorthAmerica ==
  <<78, 111, 114, 116, 104, 32, 65, 109, 101, 114, 105, 99, 97>>  (* "North America" *)

Asia ==
  <<65, 115, 105, 97>>  (* "Asia" *)

Finland ==
  <<70, 105, 110, 108, 97, 110, 100>>  (* "Finland" *)

Helsinki ==
  <<72, 101, 108, 115, 105, 110, 107, 105>>  (* "Helsinki" *)

Canada ==
  <<67, 97, 110, 97, 100, 97>>  (* "Canada" *)

Ottawa ==
  <<79, 116, 116, 97, 119, 97>>  (* "Ottawa" *)

Japan ==
  <<74, 97, 112, 97, 110>>  (* "Japan" *)

Tokyo ==
  <<26481, 20140>>  (* "\u6771\u4eac" *)

Belgium ==
  <<66, 101, 108, 103, 105, 117, 109>>  (* "Belgium" *)

Egypt ==
  <<69, 103, 121, 112, 116>>  (* "Egypt" *)

FinlandPadded ==
  <<32, 70, 105, 110, 108, 97, 110, 100, 32>>  (* " Finland " *)

europe_capitals_yaml ==
  <<101, 117, 114, 111, 112, 101, 95, 99, 97, 112, 105, 116, 97, 108, 115, 46, 121, 97, 109, 108>>  (* "europe_capitals.yaml" *)

\* ------------------------------------------------- tables of the source
capital_overrides ==
  <<
    [op |-> "set", country |-> <<66, 101, 108, 103, 105, 117, 109>>, city |-> <<66, 114, 117, 115, 115, 101, 108, 115>>]  (* "Belgium = Brussels" *)
   ,    [op |-> "set", country |-> <<67, 111, 108, 111, 109, 98, 105, 97>>, city |-> <<66, 111, 103, 111, 116, 97>>]  (* "Colombia = Bogota" *)
   ,    [op |-> "set", country |-> <<70, 105, 110, 108, 97, 110, 100>>, city |-> <<72, 101, 108, 115, 105, 110, 107, 105>>]  (* "Finland = Helsinki" *)
   ,    [op |-> "pop", country |-> <<72, 111, 108, 121, 32, 83, 101, 101, 32, 40, 86, 97, 116, 105, 99, 97, 110, 32, 67, 105, 116, 121, 32, 83, 116, 97, 116, 101, 41>>, city |-> <<>>]  (* "pop Holy See (Vatican City State)" *)
   ,    [op |-> "set", country |-> <<86, 97, 116, 105, 99, 97, 110, 32, 67, 105, 116, 121>>, city |-> <<86, 97, 116, 105, 99, 97, 110, 32, 67, 105, 116, 121>>]  (* "Vatican City = Vatican City" *)
   ,    [op |-> "set", country |-> <<76, 117, 120, 101, 109, 98, 111, 117, 114, 103>>, city |-> <<76, 117, 120, 101, 109, 98, 111, 117, 114, 103>>]  (* "Luxembourg = Luxembourg" *)
   ,    [op |-> "set", country |-> <<77, 97, 114, 115, 104, 97, 108, 108, 32, 73, 115, 108, 97, 110, 100, 115>>, city |-> <<77, 97, 106, 117, 114, 111>>]  (* "Marshall Islands = Majuro" *)
   ,    [op |-> "set", country |-> <<77, 101, 120, 105, 99, 111>>, city |-> <<77, 101, 120, 105, 99, 111, 32, 67, 105, 116, 121>>]  (* "Mexico = Mexico City" *)
   ,    [op |-> "set", country |-> <<77, 121, 97, 110, 109, 97, 114>>, city |-> <<78, 97, 121, 112, 121, 105, 100, 97, 119>>]  (* "Myanmar = Naypyidaw" *)
   ,    [op |-> "set", country |-> <<80, 97, 108, 97, 117>>, city |-> <<78, 103, 101, 114, 117, 108, 109, 117, 100>>]  (* "Palau = Ngerulmud" *)
   ,    [op |-> "set", country |-> <<80, 97, 108, 101, 115, 116, 105, 110, 101>>, city |-> <<82, 97, 109, 97, 108, 108, 97, 104>>]  (* "Palestine = Ramallah" *)
   ,    [op |-> "set", country |-> <<80, 97, 110, 97, 109, 97>>, city |-> <<80, 97, 110, 97, 109, 97, 32, 67, 105, 116, 121>>]  (* "Panama = Panama City" *)
   ,    [op |-> "set", country |-> <<83, 114, 105, 32, 76, 97, 110, 107, 97>>, city |-> <<67, 111, 108, 111, 109, 98, 111>>]  (* "Sri Lanka = Colombo" *)
   ,    [op |-> "set", country |-> <<84, 111, 103, 111>>, city |-> <<76, 111, 109, 101>>]  (* "Togo = Lome" *)
   ,    [op |-> "set", country |-> <<87, 101, 115, 116, 101, 114, 110, 32, 83, 97, 104, 97, 114, 97>>, city |-> <<76, 97, 97, 121, 111, 117, 110, 101>>]  (* "Western Sahara = Laayoune" *)
   ,    [op |-> "set", country |-> <<67, 104, 105, 108, 101>>, city |-> <<83, 97, 110, 116, 105, 97, 103, 111>>]  (* "Chile = Santiago" *)
   ,    [op |-> "set", country |-> <<67, 117, 98, 97>>, city |-> <<72, 97, 118, 97, 110, 97>>]  (* "Cuba = Havana" *)
   ,    [op |-> "set", country |-> <<68, 111, 109, 105, 110, 105, 99, 97, 110, 32, 82, 101, 112, 117, 98, 108, 105, 99>>, city |-> <<83, 97, 110, 116, 111, 32, 68, 111, 109, 105, 110, 103, 111>>]  (* "Dominican Republic = Santo Domingo" *)
   ,    [op |-> "set", country |-> <<71, 117, 97, 116, 101, 109, 97, 108, 97>>, city |-> <<71, 117, 97, 116, 101, 109, 97, 108, 97, 32, 67, 105, 116, 121>>]  (* "Guatemala = Guatemala City" *)
   ,    [op |-> "set", country |-> <<67, 111, 111, 107, 32, 73, 115, 108, 97, 110, 100, 115>>, city |-> <<65, 118, 97, 114, 117, 97>>]  (* "Cook Islands = Avarua" *)
   ,    [op |-> "set", country |-> <<67, 104, 105, 110, 97>>, city |-> <<66, 101, 105, 106, 105, 110, 103>>]  (* "China = Beijing" *)
   ,    [op |-> "set", country |-> <<66, 97, 104, 114, 97, 105, 110>>, city |-> <<77, 97, 110, 97, 109, 97>>]  (* "Bahrain = Manama" *)
   ,    [op |-> "set", country |-> <<77, 111, 110, 103, 111, 108, 105, 97>>, city |-> <<85, 108, 97, 97, 110, 98, 97, 97, 116, 97, 114>>]  (* "Mongolia = Ulaanbaatar" *)
   ,    [op |-> "set", country |-> <<79, 109, 97, 110>>, city |-> <<77, 117, 115, 99, 97, 116>>]  (* "Oman = Muscat" *)
   ,    [op |-> "set", country |-> <<85, 122, 98, 101, 107, 105, 115, 116, 97, 110>>, city |-> <<84, 97, 115, 104, 107, 101, 110, 116>>]  (* "Uzbekistan = Tashkent" *)
   ,    [op |-> "set", country |-> <<65, 117, 115, 116, 114, 105, 97>>, city |-> <<86, 105, 101, 110, 110, 97>>]  (* "Austria = Vienna" *)
   ,    [op |-> "set", country |-> <<67, 122, 101, 99, 104, 32, 82, 101, 112, 117, 98, 108, 105, 99>>, city |-> <<80, 114, 97, 103, 117, 101>>]  (* "Czech Republic = Prague" *)
   ,    [op |-> "set", country |-> <<70, 97, 114, 111, 101, 32, 73, 115, 108, 97, 110, 100, 115>>, city |-> <<84, 111, 114, 115, 104, 97, 118, 110>>]  (* "Faroe Islands = Torshavn" *)
   ,    [op |-> "set", country |-> <<71, 114, 101, 101, 99, 101>>, city |-> <<65, 116, 104, 101, 110, 115>>]  (* "Greece = Athens" *)
   ,    [op |-> "set", country |-> <<77, 111, 110, 97, 99, 111>>, city |-> <<77, 111, 110, 97, 99, 111>>]  (* "Monaco = Monaco" *)
   ,    [op |-> "set", country |-> <<73, 116, 97, 108, 121>>, city |-> <<82, 111, 109, 101>>]  (* "Italy = Rome" *)
   ,    [op |-> "set", country |-> <<82, 111, 109, 97, 110, 105, 97>>, city |-> <<66, 117, 99, 104, 97, 114, 101, 115, 116>>]  (* "Romania = Bucharest" *)
   ,    [op |-> "set", country |-> <<80, 111, 114, 116, 117, 103, 97, 108>>, city |-> <<76, 105, 115, 98, 111, 110>>]  (* "Portugal = Lisbon" *)
   ,    [op |-> "set", country |-> <<80, 111, 108, 97, 110, 100>>, city |-> <<87, 97, 114, 115, 97, 119>>]  (* "Poland = Warsaw" *)
  >>

renames ==
  <<
    <<<<69, 103, 121, 112, 116, 44, 32, 65, 114, 97, 98, 32, 82, 101, 112, 46>>, <<69, 103, 121, 112, 116>>>>  (* "Egypt, Arab Rep. -> Egypt" *)
   ,    <<<<67, 111, 110, 103, 111, 44, 32, 68, 101, 109, 46, 32, 82, 101, 112, 46>>, <<84, 104, 101, 32, 68, 101, 109, 111, 99, 114, 97, 116, 105, 99, 32, 82, 101, 112, 117, 112, 108, 105, 99, 32, 111, 102, 32, 67, 111, 110, 103, 111>>>>  (* "Congo, Dem. Rep. -> The Democratic Repuplic of Congo" *)
   ,    <<<<86, 105, 101, 116, 32, 78, 97, 109>>, <<86, 105, 101, 116, 110, 97, 109>>>>  (* "Viet Nam -> Vietnam" *)
   ,    <<<<73, 114, 97, 110, 44, 32, 73, 115, 108, 97, 109, 105, 99, 32, 82, 101, 112, 46>>, <<73, 114, 97, 110>>>>  (* "Iran, Islamic Rep. -> Iran" *)
   ,    <<<<84, 252, 114, 107, 105, 121, 101>>, <<84, 117, 114, 107, 101, 121>>>>  (* "T\xfcrkiye -> Turkey" *)
   ,    <<<<75, 111, 114, 101, 97, 44, 32, 82, 101, 112, 46>>, <<83, 111, 117, 116, 104, 32, 75, 111, 114, 101, 97>>>>  (* "Korea, Rep. -> South Korea" *)
   ,    <<<<89, 101, 109, 101, 110, 44, 32, 82, 101, 112, 46>>, <<89, 101, 109, 101, 110>>>>  (* "Yemen, Rep. -> Yemen" *)
   ,    <<<<86, 101, 110, 101, 122, 117, 101, 108, 97, 44, 32, 82, 66>>, <<86, 101, 110, 101, 122, 117, 101, 108, 97>>>>  (* "Venezuela, RB -> Venezuela" *)
   ,    <<<<67, 244, 116, 101, 32, 100, 39, 73, 118, 111, 105, 114, 101>>, <<73, 118, 111, 114, 121, 32, 67, 111, 97, 115, 116>>>>  (* "C\xf4te d'Ivoire -> Ivory Coast" *)
   ,    <<<<75, 111, 114, 101, 97, 44, 32, 68, 101, 109, 46, 32, 80, 101, 111, 112, 108, 101, 39, 115, 32, 82, 101, 112, 46>>, <<78, 111, 114, 116, 104, 32, 75, 111, 114, 101, 97>>>>  (* "Korea, Dem. People's Rep. -> North Korea" *)
   ,    <<<<83, 121, 114, 105, 97, 110, 32, 65, 114, 97, 98, 32, 82, 101, 112, 117, 98, 108, 105, 99>>, <<83, 121, 114, 105, 97>>>>  (* "Syrian Arab Republic -> Syria" *)
   ,    <<<<76, 97, 111, 32, 80, 68, 82>>, <<76, 97, 111, 115>>>>  (* "Lao PDR -> Laos" *)
   ,    <<<<72, 111, 110, 103, 32, 75, 111, 110, 103, 32, 83, 65, 82, 44, 32, 67, 104, 105, 110, 97>>, <<72, 111, 110, 103, 32, 75, 111, 110, 103>>>>  (* "Hong Kong SAR, China -> Hong Kong" *)
   ,    <<<<75, 121, 114, 103, 121, 122, 32, 82, 101, 112, 117, 98, 108, 105, 99>>, <<75, 121, 114, 103, 121, 122, 115, 116, 97, 110>>>>  (* "Kyrgyz Republic -> Kyrgyzstan" *)
   ,    <<<<76, 105, 98, 121, 97>>, <<76, 105, 98, 121, 97, 110, 32, 65, 114, 97, 98, 32, 74, 97, 109, 97, 104, 105, 114, 105, 121, 97>>>>  (* "Libya -> Libyan Arab Jamahiriya" *)
   ,    <<<<67, 111, 110, 103, 111, 44, 32, 82, 101, 112, 46>>, <<67, 111, 110, 103, 111>>>>  (* "Congo, Rep. -> Congo" *)
   ,    <<<<83, 108, 111, 118, 97, 107, 32, 82, 101, 112, 117, 98, 108, 105, 99>>, <<83, 108, 111, 118, 97, 107, 105, 97>>>>  (* "Slovak Republic -> Slovakia" *)
   ,    <<<<87, 101, 115, 116, 32, 66, 97, 110, 107, 32, 97, 110, 100, 32, 71, 97, 122, 97>>, <<80, 97, 108, 101, 115, 116, 105, 110, 101>>>>  (* "West Bank and Gaza -> Palestine" *)
   ,    <<<<71, 97, 109, 98, 105, 97, 44, 32, 84, 104, 101>>, <<71, 97, 109, 98, 105, 97>>>>  (* "Gambia, The -> Gambia" *)
   ,    <<<<84, 105, 109, 111, 114, 45, 76, 101, 115, 116, 101>>, <<69, 97, 115, 116, 32, 84, 105, 109, 111, 114>>>>  (* "Timor-Leste -> East Timor" *)
   ,    <<<<69, 115, 119, 97, 116, 105, 110, 105>>, <<83, 119, 97, 122, 105, 108, 97, 110, 100>>>>  (* "Eswatini -> Swaziland" *)
   ,    <<<<70, 105, 106, 105>>, <<70, 105, 106, 105, 32, 73, 115, 108, 97, 110, 100, 115>>>>  (* "Fiji -> Fiji Islands" *)
   ,    <<<<77, 97, 99, 97, 111, 32, 83, 65, 82, 44, 32, 67, 104, 105, 110, 97>>, <<77, 97, 99, 97, 111>>>>  (* "Macao SAR, China -> Macao" *)
   ,    <<<<67, 97, 98, 111, 32, 86, 101, 114, 100, 101>>, <<67, 97, 112, 101, 32, 86, 101, 114, 100, 101>>>>  (* "Cabo Verde -> Cape Verde" *)
   ,    <<<<66, 114, 117, 110, 101, 105, 32, 68, 97, 114, 117, 115, 115, 97, 108, 97, 109>>, <<66, 114, 117, 110, 101, 105>>>>  (* "Brunei Darussalam -> Brunei" *)
   ,    <<<<66, 97, 104, 97, 109, 97, 115, 44, 32, 84, 104, 101>>, <<66, 97, 104, 97, 109, 97, 115>>>>  (* "Bahamas, The -> Bahamas" *)
   ,    <<<<83, 227, 111, 32, 84, 111, 109, 233, 32, 97, 110, 100, 32, 80, 114, 105, 110, 99, 105, 112, 101>>, <<83, 97, 111, 32, 84, 111, 109, 101, 32, 97, 110, 100, 32, 80, 114, 105, 110, 99, 105, 112, 101>>>>  (* "S\xe3o Tom\xe9 and Principe -> Sao Tome and Principe" *)
   ,    <<<<83, 116, 46, 32, 76, 117, 99, 105, 97>>, <<83, 97, 105, 110, 116, 32, 76, 117, 99, 105, 97>>>>  (* "St. Lucia -> Saint Lucia" *)
   ,    <<<<67, 117, 114, 97, 231, 97, 111>>, <<78, 101, 116, 104, 101, 114, 108, 97, 110, 100, 115, 32, 65, 110, 116, 105, 108, 108, 101, 115>>>>  (* "Cura\xe7ao -> Netherlands Antilles" *)
   ,    <<<<77, 105, 99, 114, 111, 110, 101, 115, 105, 97, 44, 32, 70, 101, 100, 46, 32, 83, 116, 115, 46>>, <<77, 105, 99, 114, 111, 110, 101, 115, 105, 97, 44, 32, 70, 101, 100, 101, 114, 97, 116, 101, 100, 32, 83, 116, 97, 116, 101, 115, 32, 111, 102>>>>  (* "Micronesia, Fed. Sts. -> Micronesia, Federated States of" *)
   ,    <<<<86, 105, 114, 103, 105, 110, 32, 73, 115, 108, 97, 110, 100, 115, 32, 40, 85, 46, 83, 46, 41>>, <<86, 105, 114, 103, 105, 110, 32, 73, 115, 108, 97, 110, 100, 115, 44, 32, 85, 46, 83, 46>>>>  (* "Virgin Islands (U.S.) -> Virgin Islands, U.S." *)
   ,    <<<<83, 116, 46, 32, 86, 105, 110, 99, 101, 110, 116, 32, 97, 110, 100, 32, 116, 104, 101, 32, 71, 114, 101, 110, 97, 100, 105, 110, 101, 115>>, <<83, 97, 105, 110, 116, 32, 86, 105, 110, 99, 101, 110, 116, 32, 97, 110, 100, 32, 116, 104, 101, 32, 71, 114, 101, 110, 97, 100, 105, 110, 101, 115>>>>  (* "St. Vincent and the Grenadines -> Saint Vincent and the Grenadines" *)
   ,    <<<<83, 116, 46, 32, 75, 105, 116, 116, 115, 32, 97, 110, 100, 32, 78, 101, 118, 105, 115>>, <<83, 97, 105, 110, 116, 32, 75, 105, 116, 116, 115, 32, 97, 110, 100, 32, 78, 101, 118, 105, 115>>>>  (* "St. Kitts and Nevis -> Saint Kitts and Nevis" *)
   ,    <<<<66, 114, 105, 116, 105, 115, 104, 32, 86, 105, 114, 103, 105, 110, 32, 73, 115, 108, 97, 110, 100, 115>>, <<86, 105, 114, 103, 105, 110, 32, 73, 115, 108, 97, 110, 100, 115, 44, 32, 66, 114, 105, 116, 105, 115, 104>>>>  (* "British Virgin Islands -> Virgin Islands, British" *)
  >>
\* -------------------------------------------------------- continent_fixup
continent_fixup(f, q) ==
  IF ~Exists(f, country_continent_json) THEN Raised(f, q)
  ELSE
    LET loaded == f[country_continent_json]
        countries ==
          List([i \in 1..Len(loaded) |->
                  IF loaded[i].country = HolySee
                  THEN [loaded[i] EXCEPT !.country = VaticanCity]
                  ELSE loaded[i]])
    IN  Returned(Write(f, country_continent_json, SortByCountry(countries)), q)

\* ----------------------------------------------------- split_by_continent
\* res[obj["continent"]].append(obj["country"]) over the records in order
RECURSIVE GroupByContinent(_, _)
GroupByContinent(data, res) ==
  IF data = <<>> THEN res
  ELSE
    LET obj == Head(data)
        old == IF DictHas(res, obj.continent) THEN DictGet(res, obj.continent)
               ELSE <<>>
    IN  GroupByContinent(Tail(data),
                         DictSet(res, obj.continent, Append(old, obj.country)))

split_by_continent(f, q) ==
  IF ~Exists(f, country_continent_json) THEN Raised(f, q)
  ELSE
    LET res == GroupByContinent(f[country_continent_json], <<>>)
        sorted == List([i \in 1..Len(res) |->
                          [key |-> res[i].key, val |-> SortStrings(res[i].val)]])
    IN  Returned(Write(f, continent_to_country_json, sorted), q)

\* ---------------------------------------------------------- capital_fixup
\* {c["country"]: c["city"] for c in capitals}, one record after the other.
\* (The dict is bound by a quantifier so that it is a value before the next
\* record is added: an operator argument would be evaluated only at the end,
\* as one nest as deep as the file is long.)
RECURSIVE CapitalsDict(_, _)
CapitalsDict(capitals, d) ==
  IF capitals = <<>> THEN d
  ELSE CHOOSE r \in {CapitalsDict(Tail(capitals), next) :
                       next \in {DictSet(d, Head(capitals).country,
                                         Head(capitals).city)}} : TRUE

\* (mutant) an override leaves a city the file already has
Override_keep(d, o) ==
  IF o.op = "set"
  THEN (IF DictHas(d, o.country) THEN d ELSE DictSet(d, o.country, o.city))
  ELSE DictPop(d, o.country)

\* one statement of lines 43-76
Override(d, o) ==
  IF o.op = "set" THEN DictSet(d, o.country, o.city) ELSE DictPop(d, o.country)

\* the statements of lines 43-76 in order
RECURSIVE ApplyOverrides(_, _)
ApplyOverrides(d, ops) ==
  IF ops = <<>> THEN d
  ELSE CHOOSE r \in {ApplyOverrides(next, Tail(ops)) :
                       next \in {Override(d, Head(ops))}} : TRUE

\* (mutant) the overrides are appended to the list instead of set in a dict
capital_fixup_append(f, q) ==
  IF ~Exists(f, country_capital_json) THEN Raised(f, q)
  ELSE
    LET sets == SelectSeq(capital_overrides, LAMBDA o : o.op = "set")
        capitals == f[country_capital_json]
                      \o List([i \in 1..Len(sets) |->
                                 [country |-> sets[i].country, city |-> sets[i].city]])
    IN  Returned(Write(f, country_capital_json, SortByCountry(capitals)), q)

capital_fixup(f, q) ==
  IF ~Exists(f, country_capital_json) THEN Raised(f, q)
  ELSE
    LET loaded == f[country_capital_json]
        d == ApplyOverrides(CapitalsDict(loaded, <<>>), capital_overrides)
        capitals == List([i \in 1..Len(d) |->
                            [country |-> d[i].key, city |-> d[i].val]])
    IN  Returned(Write(f, country_capital_json, SortByCountry(capitals)), q)

\* -------------------------------------------------- continent_to_capitals
InList(x, list) == \E i \in 1..Len(list) : list[i] = x

RECURSIVE WriteCapitals(_, _, _)
WriteCapitals(f, continents, capitals) ==
  IF continents = <<>> THEN f
  ELSE
    LET cont == Head(continents).key
        countries == Head(continents).val
        selected == SelectSeq(capitals,
                      LAMBDA cc : InList(cc.country, countries) /\ Truthy(cc.city))
        cs == List([i \in 1..Len(selected) |->
                      [country |-> fprint(selected[i].country),
                       city |-> fprint(selected[i].city)]])
    IN  IF Len(cs) = 0 THEN WriteCapitals(f, Tail(continents), capitals)
        ELSE WriteCapitals(
               Write(f, continent_file_prefix(cont) \o capitals_json_suffix, cs),
               Tail(continents), capitals)

continent_to_capitals(f, q) ==
  IF ~Exists(f, continent_to_country_json) \/ ~Exists(f, country_capital_json)
  THEN Raised(f, q)
  ELSE Returned(WriteCapitals(f, f[continent_to_country_json],
                              f[country_capital_json]), q)

\* ----------------------------------------------------- continent_to_areas
min_area == 1000

RECURSIVE WriteAreas(_, _, _)
WriteAreas(f, continents, areas) ==
  IF continents = <<>> THEN f
  ELSE
    LET continent == Head(continents).key
        countries == Head(continents).val
        continent_areas == SelectSeq(areas,
                             LAMBDA item : InList(item.country, countries))
    IN  IF Len(continent_areas) = 0 THEN WriteAreas(f, Tail(continents), areas)
        ELSE WriteAreas(
               Write(f, continent_file_prefix(continent) \o areas_json_suffix,
                     continent_areas),
               Tail(continents), areas)

\* (mutant) the threshold is inclusive
continent_to_areas_geq(f, q) ==
  IF ~Exists(f, continent_to_country_json) \/ ~Exists(f, country_area_json)
  THEN Raised(f, q)
  ELSE
    LET areas == SelectSeq(f[country_area_json],
                           LAMBDA item : item.area >= min_area * NumScale)
    IN  Returned(WriteAreas(f, f[continent_to_country_json], areas), q)

continent_to_areas(f, q) ==
  IF ~Exists(f, continent_to_country_json) \/ ~Exists(f, country_area_json)
  THEN Raised(f, q)
  ELSE
    LET areas == SelectSeq(f[country_area_json],
                           LAMBDA item : item.area > min_area * NumScale)
    IN  Returned(WriteAreas(f, f[continent_to_country_json], areas), q)

\* -------------------------------------------------------- population_json
\* A CSV line is held as its two columns used: line[3] and line[4].
\* One iteration of the reader loop: int() raises on a malformed figure.
ReadLine(populations, line) ==
  LET digits == remove_commas(line.pop)
  IN  IF ~IsIntLiteral(digits) THEN [ok |-> FALSE, d |-> populations]
      ELSE [ok |-> TRUE,
            d |-> DictSet(populations, strip(line.country),
                          ParseInt(digits) * 1000)]

RECURSIVE ReadPopulations(_, _)
ReadPopulations(lines, r) ==
  IF lines = <<>> \/ ~r.ok THEN r
  ELSE ReadPopulations(Tail(lines), ReadLine(r.d, Head(lines)))

\* (mutant) a missing key1 is passed over in silence
rename_lenient(d, key1, key2) ==
  IF ~DictHas(d, key1) THEN [ok |-> TRUE, d |-> d]
  ELSE [ok |-> TRUE, d |-> DictSet(DictPop(d, key1), key2, DictGet(d, key1))]

\* (mutant) the entry of key1 is copied and not deleted
rename_keep(d, key1, key2) ==
  IF ~DictHas(d, key1) THEN [ok |-> FALSE, d |-> d]
  ELSE [ok |-> TRUE, d |-> DictSet(d, key2, DictGet(d, key1))]

\* rename(d, key1, key2): d[key1] raises KeyError when key1 is absent
rename(d, key1, key2) ==
  IF ~DictHas(d, key1) THEN [ok |-> FALSE, d |-> d]
  ELSE [ok |-> TRUE, d |-> DictSet(DictPop(d, key1), key2, DictGet(d, key1))]

\* for a, b in renames: rename(populations, a, b)
RECURSIVE ApplyRenames(_, _)
ApplyRenames(r, rs) ==
  IF rs = <<>> \/ ~r.ok THEN r
  ELSE ApplyRenames(rename(r.d, Head(rs)[1], Head(rs)[2]), Tail(rs))

JsonNumber(n) == n * NumScale

population_json(f, q) ==
  IF ~Exists(f, world_population_csv) THEN Raised(f, q)
  ELSE
    LET lines == f[world_population_csv]
        read == ReadPopulations(lines, [ok |-> TRUE, d |-> <<>>])
        r == ApplyRenames(read, renames)
        populations == List([i \in 1..Len(r.d) |->
                               [country |-> r.d[i].key,
                                population |-> JsonNumber(r.d[i].val)]])
    IN  IF ~r.ok THEN Raised(f, q)
        ELSE Returned(Write(f, country_population_json, populations), q)

\* ------------------------------------------------ continent_to_population
RECURSIVE WritePopulations(_, _, _)
WritePopulations(f, continents, populations) ==
  IF continents = <<>> THEN f
  ELSE
    LET continent == continent_file_prefix(Head(continents).key)
        countries == Head(continents).val
        continent_pops == SelectSeq(populations,
                            LAMBDA c : InList(c.country, countries))
    IN  WritePopulations(
          Write(f, continent \o populations_json_suffix, continent_pops),
          Tail(continents), populations)

continent_to_population(f, q) ==
  IF ~Exists(f, continent_to_country_json) \/ ~Exists(f, country_population_json)
  THEN Raised(f, q)
  ELSE Returned(WritePopulations(f, f[continent_to_country_json],
                                 f[country_population_json]), q)

\* ----------------------------------------------------- question generators
\* os.listdir(".") in any order; files without the suffix are skipped
Listings(f, suffix) ==
  LET matching == {p \in DOMAIN f : EndsWith(p, suffix)}
      n == Cardinality(matching)
  IN  {l \in [1..n -> matching] : \A i, j \in 1..n : i # j => l[i] # l[j]}

\* range: 0.025
tolerance == <<25, 1000>>

capital_questions(continent, data) ==
  [name |-> continent \o capitals_name_suffix,
   type_ |-> "default",
   data |-> [question_prefix |-> capital_question_prefix,
             items |-> SortByQuestion(List(
                [i \in 1..Len(data) |->
                   [question |-> data[i].country, answers |-> <<data[i].city>>]]))]]

RECURSIVE continent_capitals_questions(_, _, _)
continent_capitals_questions(f, q, listing) ==
  IF listing = <<>> THEN Returned(f, q)
  ELSE
    LET p == Head(listing)
        continent == removesuffix(p, capitals_json_suffix)
    IN  continent_capitals_questions(f,
          Write(q, continent \o capitals_name_suffix \o yaml_suffix,
                capital_questions(continent, f[p])),
          Tail(listing))

area_questions(continent, data) ==
  [name |-> continent \o areas_name_suffix,
   type_ |-> "numeric_range",
   data |-> [question_prefix |-> area_question_prefix,
             items |-> SortByQuestion(List(
                [i \in 1..Len(data) |->
                   [question |-> data[i].country, answer |-> int(data[i].area)]])),
             range |-> tolerance]]

RECURSIVE continent_area_questions(_, _, _)
continent_area_questions(f, q, listing) ==
  IF listing = <<>> THEN Returned(f, q)
  ELSE
    LET p == Head(listing)
        continent == removesuffix(p, areas_json_suffix)
    IN  continent_area_questions(f,
          Write(q, continent \o areas_name_suffix \o yaml_suffix,
                area_questions(continent, f[p])),
          Tail(listing))

population_questions(continent, data) ==
  [name |-> continent \o populations_name_suffix,
   type_ |-> "numeric_range",
   data |-> [question_prefix |-> population_question_prefix,
             items |-> SortByQuestion(List(
                [i \in 1..Len(data) |->
                   [question |-> data[i].country,
                    answer |-> int(data[i].population)]])),
             range |-> tolerance]]

RECURSIVE continent_population_questions(_, _, _)
continent_population_questions(f, q, listing) ==
  IF listing = <<>> THEN Returned(f, q)
  ELSE
    LET p == Head(listing)
        continent == removesuffix(p, populations_json_suffix)
    IN  continent_population_questions(f,
          Write(q, continent \o populations_name_suffix \o yaml_suffix,
                population_questions(continent, f[p])),
          Tail(listing))

\* ------------------------------------------------------------ orchestrators
gen_capital_questions ==
  <<"continent_fixup", "split_by_continent", "capital_fixup",
    "continent_to_capitals", "continent_capitals_questions">>

gen_area_questions ==
  <<"continent_fixup", "split_by_continent", "continent_to_areas",
    "continent_area_questions">>

gen_population_questions ==
  <<"continent_fixup", "split_by_continent", "population_json",
    "continent_to_population", "continent_population_questions">>

\* the three calls at the end of the module, in order
Script == gen_capital_questions \o gen_area_questions \o gen_population_questions

\* ------------------------------------------------------------------ inputs
SeqsUpTo(S, n) == UNION {[1..k -> S] : k \in 0..n}

ContinentRecords ==
  {[country |-> Finland, continent |-> Europe],
   [country |-> Finland, continent |-> Asia],
   [country |-> HolySee, continent |-> Europe],
   [country |-> VaticanCity, continent |-> Europe],
   [country |-> Canada, continent |-> NorthAmerica],
   [country |-> Japan, continent |-> Asia]}

CapitalRecords ==
  {[country |-> Finland, city |-> <<>>],
   [country |-> Canada, city |-> Ottawa],
   [country |-> Canada, city |-> Null],
   [country |-> HolySee, city |-> VaticanCity]}

AreaRecords ==
  {[country |-> Finland, area |-> min_area * NumScale + 1],
   [country |-> Finland, area |-> min_area * NumScale],
   [country |-> Japan, area |-> min_area * NumScale - 1],
   [country |-> Canada, area |-> 9984670 * NumScale]}

\* "1,0dd": the figure of the CSV line of the i-th alias
Figure(i) == <<49, 44, 48, 48 + (i \div 10), 48 + (i % 10)>>

AliasLines ==
  [i \in 1..Len(renames) |-> [country |-> renames[i][1], pop |-> Figure(i)]]

ExtraLines ==
  {[country |-> Finland, pop |-> <<55>>],
   [country |-> Egypt, pop |-> <<57>>],
   [country |-> renames[1][1], pop |-> <<51>>],
   [country |-> Canada, pop |-> <<110, 47, 97>>]}

BaseContinents ==
  <<[country |-> Japan, continent |-> Asia],
    [country |-> Finland, continent |-> Europe],
    [country |-> Canada, continent |-> NorthAmerica],
    [country |-> Belgium, continent |-> Europe]>>

BaseCapitals ==
  <<[country |-> Japan, city |-> Tokyo],
    [country |-> Canada, city |-> Ottawa]>>

BaseAreas ==
  <<[country |-> Finland, area |-> min_area * NumScale + 1],
    [country |-> Japan, area |-> min_area * NumScale],
    [country |-> Canada, area |-> 9984670 * NumScale],
    [country |-> Belgium, area |-> 30528 * NumScale]>>

BaseCsv ==
  AliasLines \o <<[country |-> FinlandPadded, pop |-> <<53, 44, 53, 52, 49>>],
                  [country |-> Canada, pop |-> <<51, 56, 44, 50, 53, 48>>],
                  [country |-> Belgium, pop |-> <<49, 49, 44, 54, 56, 53>>]>>

WithoutLine(s, i) == SubSeq(s, 1, i - 1) \o SubSeq(s, i + 1, Len(s))

\* a source file is <<>> when missing and <<content>> when present
Put(f, name, opt) == IF opt = <<>> THEN f ELSE Write(f, name, opt[1])

SourceFiles(continents, capitals, areas, csv) ==
  Put(Put(Put(Put(<<>>, country_continent_json, continents),
              country_capital_json, capitals),
          country_area_json, areas),
      world_population_csv, csv)

Optional(S) == {<<>>} \cup {<<x>> : x \in S}

InitFiles ==
  {SourceFiles(c, <<BaseCapitals>>, <<BaseAreas>>, <<BaseCsv>>) :
     c \in Optional(SeqsUpTo(ContinentRecords, MaxContinentRecords))}
  \cup
  {SourceFiles(<<BaseContinents>>, c, <<BaseAreas>>, <<BaseCsv>>) :
     c \in Optional(SeqsUpTo(CapitalRecords, MaxCapitalRecords))}
  \cup
  {SourceFiles(<<BaseContinents>>, <<BaseCapitals>>, a, <<BaseCsv>>) :
     a \in Optional(SeqsUpTo(AreaRecords, MaxAreaRecords))}
  \cup
  {SourceFiles(<<BaseContinents>>, <<BaseCapitals>>, <<BaseAreas>>, p) :
     p \in Optional({BaseCsv \o x : x \in SeqsUpTo(ExtraLines, MaxCsvExtraRows)}
                    \cup {WithoutLine(BaseCsv, i) : i \in {1, Len(AliasLines)}})}

\* ------------------------------------------------------------ state machine
Init ==
  /\ files \in InitFiles
  /\ questions = <<>>
  /\ status = "idle"
  /\ pc = 1
  /\ runs = 0
  /\ start = [files |-> files, questions |-> questions]
  /\ rerun = FALSE

\* python wrangle.py: the module body starts executing
Launch ==
  /\ status # "running"
  /\ runs < MaxRuns
  /\ status' = "running"
  /\ pc' = 1
  /\ runs' = runs + 1
  /\ start' = [files |-> files, questions |-> questions]
  /\ rerun' = (status = "done")
  /\ UNCHANGED <<files, questions>>

At(step) == status = "running" /\ Script[pc] = step

\* a step returns and the next one starts, or it raises and the run is over
Step(r) ==
  /\ files' = r.files
  /\ questions' = r.questions
  /\ IF r.ok
     THEN /\ pc' = pc + 1
          /\ status' = IF pc = Len(Script) THEN "done" ELSE "running"
     ELSE /\ pc' = pc
          /\ status' = "aborted"
  /\ UNCHANGED <<runs, start, rerun>>

ContinentFixup == At("continent_fixup") /\ Step(continent_fixup(files, questions))

SplitByContinent ==
  At("split_by_continent") /\ Step(split_by_continent(files, questions))

CapitalFixup == At("capital_fixup") /\ Step(capital_fixup(files, questions))

ContinentToCapitals ==
  At("continent_to_capitals") /\ Step(continent_to_capitals(files, questions))

ContinentCapitalsQuestions ==
  /\ At("continent_capitals_questions")
  /\ \E listing \in Listings(files, capitals_json_suffix) :
       Step(continent_capitals_questions(files, questions, listing))

ContinentToAreas ==
  At("continent_to_areas") /\ Step(continent_to_areas(files, questions))

ContinentAreaQuestions ==
  /\ At("continent_area_questions")
  /\ \E listing \in Listings(files, areas_json_suffix) :
       Step(continent_area_questions(files, questions, listing))

PopulationJson == At("population_json") /\ Step(population_json(files, questions))

ContinentToPopulation ==
  At("continent_to_population") /\ Step(continent_to_population(files, questions))

ContinentPopulationQuestions ==
  /\ At("continent_population_questions")
  /\ \E listing \in Listings(files, populations_json_suffix) :
       Step(continent_population_questions(files, questions, listing))

\* between two runs a record is deleted from the hand-maintained continent file
EditContinents ==
  /\ status \in {"done", "aborted"}
  /\ Exists(files, country_continent_json)
  /\ \E i \in 1..Len(files[country_continent_json]) :
       files' = Write(files, country_continent_json,
                      WithoutLine(files[country_continent_json], i))
  /\ status' = "idle"
  /\ UNCHANGED <<questions, pc, runs, start, rerun>>

Next ==
  \/ Launch
  \/ ContinentFixup
  \/ SplitByContinent
  \/ CapitalFixup
  \/ ContinentToCapitals
  \/ ContinentCapitalsQuestions
  \/ ContinentToAreas
  \/ ContinentAreaQuestions
  \/ PopulationJson
  \/ ContinentToPopulation
  \/ ContinentPopulationQuestions
  \/ EditContinents

Spec == Init /\ [][Next]_vars

\* ------------------------------------------------------------------ claims
\* the step called name has just returned
AfterStep(name) == status \in {"running", "done"} /\ pc > 1 /\ Script[pc - 1] = name

Range(s) == {s[i] : i \in 1..Len(s)}

FilesWithSuffix(suffix) == {p \in DOMAIN files : EndsWith(p, suffix)}

\* C1: after split_by_continent, continent_to_country.json is a partition of
\* the countries of country_continent.json: every country of the file is in
\* exactly one continent's list, and each list is strictly ascending.
C1_Partition ==
  AfterStep("split_by_continent") =>
    LET countries == files[country_continent_json]
        index == files[continent_to_country_json]
    IN  /\ \A i \in 1..Len(countries) :
             Cardinality({k \in 1..Len(index) :
                            InList(countries[i].country, index[k].val)}) = 1
        /\ \A k \in 1..Len(index) :
             \A i \in 1..(Len(index[k].val) - 1) :
                StrLess(index[k].val[i], index[k].val[i + 1])

\* C2: after capital_fixup, country_capital.json has exactly one record for
\* each country the overrides set, its city is the override's, and no record
\* for "Holy See (Vatican City State)" remains.
C2_Overrides ==
  pc > 3 =>
    LET capitals == files[country_capital_json]
    IN  /\ \A o \in Range(capital_overrides) :
             o.op = "set" =>
               /\ Cardinality({i \in 1..Len(capitals) :
                                 capitals[i].country = o.country}) = 1
               /\ \A i \in 1..Len(capitals) :
                    capitals[i].country = o.country => capitals[i].city = o.city
        /\ \A i \in 1..Len(capitals) : capitals[i].country # HolySee

\* capital_fixup has just rewritten a file that held Finland with an empty
\* city and the Holy See: it now holds Finland/Helsinki and Vatican City
C2_Witness ==
  /\ status = "running"
  /\ pc = 4
  /\ \E c \in Range(files[country_capital_json]) :
        c.country = Finland /\ c.city = Helsinki
  /\ \E c \in Range(files[country_capital_json]) : c.country = VaticanCity
  /\ \E c \in Range(start.files[country_capital_json]) :
        c.country = Finland /\ c.city = <<>>
  /\ \E c \in Range(start.files[country_capital_json]) : c.country = HolySee

\* C3: no <continent>_areas.json holds a record with area <= 1000, whatever
\* runs came before; and right after continent_to_areas every record of
\* country_area.json with area > 1000 is in the file of each continent its
\* country belongs to.
C3_AreaFilter ==
  /\ \A p \in FilesWithSuffix(areas_json_suffix) :
       \A i \in 1..Len(files[p]) : files[p][i].area > min_area * NumScale
  /\ AfterStep("continent_to_areas") =>
       \A item \in Range(files[country_area_json]) :
         \A e \in Range(files[continent_to_country_json]) :
            (InList(item.country, e.val) /\ item.area > min_area * NumScale) =>
               LET p == continent_file_prefix(e.key) \o areas_json_suffix
               IN  p \in DOMAIN files /\ InList(item, files[p])

\* continent_to_areas has just run on a file with a record of exactly 1000
\* whose country is in a continent, and a record just above 1000 was written
C3_Witness ==
  /\ AfterStep("continent_to_areas")
  /\ \E item \in Range(files[country_area_json]) :
        /\ item.area = min_area * NumScale
        /\ \E e \in Range(files[continent_to_country_json]) :
              InList(item.country, e.val)
  /\ \E p \in FilesWithSuffix(areas_json_suffix) :
        \E i \in 1..Len(files[p]) : files[p][i].area = min_area * NumScale + 1

\* C4: the items of every QuestionSet in questions/ are sorted ascending by
\* question.
C4_ItemsSorted ==
  \A n \in DOMAIN questions :
    LET items == questions[n].data.items
    IN  \A i \in 1..(Len(items) - 1) :
           StrLeq(items[i].question, items[i + 1].question)

\* a QuestionSet of two items or more was written from a fact file whose
\* records are not in ascending order of country
C4_Witness ==
  \E p \in FilesWithSuffix(populations_json_suffix) :
    LET n == removesuffix(p, populations_json_suffix)
               \o populations_name_suffix \o yaml_suffix
    IN  /\ n \in DOMAIN questions
        /\ Len(questions[n].data.items) >= 2
        /\ Len(questions[n].data.items) = Len(files[p])
        /\ \E i \in 1..(Len(files[p]) - 1) :
              StrLess(files[p][i + 1].country, files[p][i].country)

\* C5: a run launched right after a completed run leaves every file of the
\* working directory and of questions/ with the content it had.
C5_Idempotent ==
  (status = "done" /\ rerun) =>
     (files = start.files /\ questions = start.questions)

\* a second run in succession has completed and question files exist
C5_Witness ==
  /\ status = "done"
  /\ rerun
  /\ runs = 2
  /\ FilesWithSuffix(capitals_json_suffix) # {}
  /\ DOMAIN questions # {}

\* C6: when the run started with Finland/Europe in country_continent.json and
\* no record for Finland in country_capital.json, a completed run leaves
\* questions/europe_capitals.yaml with the item Finland -> [Helsinki].
C6_FinlandHelsinki ==
  ( /\ status = "done"
    /\ [country |-> Finland, continent |-> Europe]
          \in Range(start.files[country_continent_json])
    /\ \A c \in Range(start.files[country_capital_json]) : c.country # Finland )
  =>
  ( /\ europe_capitals_yaml \in DOMAIN questions
    /\ [question |-> Finland, answers |-> <<Helsinki>>]
          \in Range(questions[europe_capitals_yaml].data.items) )

\* the first run has completed from such a pair of files
C6_Witness ==
  /\ status = "done"
  /\ runs = 1
  /\ [country |-> Finland, continent |-> Europe]
        \in Range(start.files[country_continent_json])
  /\ \A c \in Range(start.files[country_capital_json]) : c.country # Finland
  /\ europe_capitals_yaml \in DOMAIN questions

\* C7: every record of a <continent>_capitals.json file, and every item of a
\* capitals QuestionSet, has a non-empty city and a non-empty country.
C7_NonEmptyCity ==
  /\ \A p \in FilesWithSuffix(capitals_json_suffix) :
       \A c \in Range(files[p]) : c.city # <<>> /\ c.country # <<>>
  /\ \A n \in DOMAIN questions :
       EndsWith(n, capitals_name_suffix \o yaml_suffix) =>
         \A item \in Range(questions[n].data.items) :
            item.question # <<>> /\ item.answers[1] # <<>>

\* what the three splitters and the three generators write into an empty
\* directory from the reference files as they are now
IsFactFile(p) ==
  \/ EndsWith(p, capitals_json_suffix)
  \/ EndsWith(p, areas_json_suffix)
  \/ EndsWith(p, populations_json_suffix)

ReferenceFiles == [p \in {n \in DOMAIN files : ~IsFactFile(n)} |-> files[p]]

DerivedFiles ==
  continent_to_population(
    continent_to_areas(
      continent_to_capitals(ReferenceFiles, <<>>).files, <<>>).files, <<>>).files

AnyListing(f, suffix) == CHOOSE l \in Listings(f, suffix) : TRUE

DerivedQuestions ==
  LET f == DerivedFiles
      q1 == continent_capitals_questions(
              f, <<>>, AnyListing(f, capitals_json_suffix)).questions
      q2 == continent_area_questions(
              f, q1, AnyListing(f, areas_json_suffix)).questions
  IN  continent_population_questions(
        f, q2, AnyListing(f, populations_json_suffix)).questions

\* C8: after a completed run every per-continent fact file and every file of
\* questions/ holds exactly what the current reference files produce.
C8_NothingStale ==
  status = "done" =>
    /\ \A p \in DOMAIN files :
         IsFactFile(p) => (p \in DOMAIN DerivedFiles /\ files[p] = DerivedFiles[p])
    /\ \A n \in DOMAIN questions :
         n \in DOMAIN DerivedQuestions /\ questions[n] = DerivedQuestions[n]

\* the working directory makes the step at pc raise
CsvNames(lines) == {strip(l.country) : l \in Range(lines)}

PopulationJsonRaises ==
  \/ ~Exists(files, world_population_csv)
  \/ \E l \in Range(files[world_population_csv]) :
        ~IsIntLiteral(remove_commas(l.pop))
  \/ \E i \in 1..Len(renames) :
        renames[i][1] \notin CsvNames(files[world_population_csv])

StepRaises ==
  /\ status = "running"
  /\ \/ /\ Script[pc] \in {"continent_fixup", "split_by_continent"}
        /\ ~Exists(files, country_continent_json)
     \/ /\ Script[pc] \in {"capital_fixup", "continent_to_capitals"}
        /\ ~Exists(files, country_capital_json)
     \/ /\ Script[pc] = "continent_to_areas"
        /\ ~Exists(files, country_area_json)
     \/ /\ Script[pc] = "population_json"
        /\ PopulationJsonRaises
     \/ /\ Script[pc] = "continent_to_population"
        /\ ~Exists(files, country_population_json)

\* C9: a step that fails (an input file missing, a malformed population
\* figure, an alias whose source name is not in the CSV) ends the run at once
\* without writing a file, and after that no step of the run executes and no
\* file changes until the script is launched again or a file is edited by
\* hand; so a failed rename leaves country_population.json as it was.
C9_AbortsRun ==
  [][ /\ StepRaises =>
           /\ status' = "aborted"
           /\ pc' = pc
           /\ files' = files
           /\ questions' = questions
      /\ status = "aborted" =>
           \/ /\ status' = "running"
              /\ pc' = 1
              /\ runs' = runs + 1
              /\ files' = files
              /\ questions' = questions
           \/ /\ status' = "idle"
              /\ pc' = pc
              /\ questions' = questions ]_vars

\* the run was aborted in population_json by an alias whose source name the
\* CSV lacks, and country_population.json was never written
C9_Witness ==
  /\ status = "aborted"
  /\ Script[pc] = "population_json"
  /\ Exists(files, world_population_csv)
  /\ \A l \in Range(files[world_population_csv]) :
        IsIntLiteral(remove_commas(l.pop))
  /\ \E i \in 1..Len(renames) :
        renames[i][1] \notin CsvNames(files[world_population_csv])
  /\ ~Exists(files, country_population_json)

\* the figure of the last CSV line of a country, times 1000
CsvPopulation(lines, name) ==
  LET last == CHOOSE i \in 1..Len(lines) :
                /\ strip(lines[i].country) = name
                /\ \A j \in (i + 1)..Len(lines) : strip(lines[j].country) # name
  IN  ParseInt(remove_commas(lines[last].pop)) * 1000

Alias(name) ==
  IF \E i \in 1..Len(renames) : renames[i][1] = name
  THEN renames[CHOOSE i \in 1..Len(renames) : renames[i][1] = name][2]
  ELSE name

\* C10: when population_json has returned, country_population.json has one
\* record per distinct stripped country name of the CSV after aliasing; for
\* every alias (old, new) no record is named old and the record named new has
\* the CSV figure of old times 1000; every country the alias table does not
\* name keeps its name and has its own CSV figure times 1000.
C10_Populations ==
  AfterStep("population_json") =>
    LET lines == files[world_population_csv]
        out == files[country_population_json]
        names == {Alias(n) : n \in CsvNames(lines)}
        Has(name, n) == \E r \in Range(out) :
                          r.country = name /\ r.population = JsonNumber(n)
    IN  /\ {r.country : r \in Range(out)} = names
        /\ Len(out) = Cardinality(names)
        /\ \A i \in 1..Len(renames) :
             /\ \A r \in Range(out) : r.country # renames[i][1]
             /\ Has(renames[i][2], CsvPopulation(lines, renames[i][1]))
        /\ \A n \in CsvNames(lines) :
             (\A i \in 1..Len(renames) : n # renames[i][1] /\ n # renames[i][2])
               => Has(n, CsvPopulation(lines, n))

\* population_json has returned on a CSV with a padded "Finland" and with a
\* line "Egypt" next to the line of its alias "Egypt, Arab Rep."
C10_Witness ==
  /\ AfterStep("population_json")
  /\ \E l \in Range(files[world_population_csv]) : l.country = FinlandPadded
  /\ \E l \in Range(files[world_population_csv]) : l.country = Egypt
  /\ \E r \in Range(files[country_population_json]) :
        r.country = Finland /\ r.population = JsonNumber(5541000)
  /\ \E r \in Range(files[country_population_json]) :
        r.country = Egypt /\ r.population = JsonNumber(1001000)

====
